---------------------------- MODULE Spec2Model ----------------------------
(***************************************************************************)
(* Model of the yourbookmark-store catalog query engine:                   *)
(*   - src/app/api/books/route.ts   GET /api/books        (catalog)        *)
(*   - src/unnamed/part_000         GET /api/books/random (sampler)        *)
(*   - src/app/layout.tsx           BookInventoryPage     (client)         *)
(* Strings are sequences of one-character strings.  JavaScript numbers are *)
(* records [nan, val] so that NaN (parseInt of non-numeric text) and its   *)
(* comparison rules are kept.                                              *)
(***************************************************************************)
EXTENDS Integers, Sequences, FiniteSets, Bags, TLC

VARIABLES
    sheet,        \* upstream spreadsheet: the CSV rows the export returns
    now,          \* the server's clock: what new Date() returns
    catPc,        \* catalog handler position: "idle", "fetching", "parsing", "done"
    catReq,       \* raw URL parameters of the catalog request in progress
    catResp,      \* last catalog response
    catFetches,   \* upstream fetch calls made by the catalog request in progress
    catUpstream,  \* how that fetch (and the CSV parse) ended, "none" before
    catText,      \* csvText of the catalog request: the rows of the body received
    catStartTime, \* fetchStartTime of the catalog request in progress
    catKept,      \* the 200 answers a caller has kept, each with its snapshot and query
    smpPc,        \* sampler position: "idle", "fetching", "shuffling", "done"
    smpReq,       \* raw URL parameters of the sample request in progress
    smpBooks,     \* the sampler's books: the eligible sequence
    shuffled,     \* the sampler's working copy being shuffled
    smpI,         \* the shuffle loop's index i (0-based, as in the source)
    draws,        \* the values j the shuffle loop has drawn so far, in order
    smpResp,      \* last sample response
    smpUpstream,  \* how the sampler's fetch (and the CSV parse) ended, "none" before
    smpText,      \* csvText of the sample request: the rows of the body received
    searchTerm,           \* client: the search input
    debouncedSearchTerm,  \* client: the debounced search value
    debounceTimer,        \* client: a debounce timer is pending
    debounceElapsed,      \* client: ms since the pending timer was set (up to its delay)
    clientStockFilter,    \* client: stockFilter, the stock filter selected
    selectedPublisher,    \* client: the publisher selected
    publishersLoaded,     \* client: the publisher list has been loaded
    allPublishers,        \* client: the publisher list
    loading,              \* client: catalog loading flag
    error,                \* client: catalog error message, "null" when none
    clientBooks,          \* client: books, the books shown
    pagination,           \* client: the pagination shown
    inflight,             \* client: bag of fetchBooks requests awaiting their response
    pubInflight,          \* client: loadPublishers fetches awaiting their response
    lastQuery,            \* the query of the most recent fetchBooks call
    recommendations,          \* client: the recommendations shown
    recommendationsLoading,   \* client: sample loading flag
    recommendationsError,     \* client: sample error message, "null" when none
    recInflight,              \* client: fetchRecommendations requests awaiting their response
    sortField,                \* client: the active sort field
    sortDirection,            \* client: the sort direction, "asc" or "desc"
    refreshedPage             \* the page shown when handleManualRefresh was last called
                              \* with no request pending; 0 before, and once a filter
                              \* or the page is changed

catVars == <<catPc, catReq, catResp, catFetches, catUpstream, catText, catStartTime, catKept>>
smpVars == <<smpPc, smpReq, smpBooks, shuffled, smpI, draws, smpResp, smpUpstream, smpText>>
recVars == <<recommendations, recommendationsLoading, recommendationsError, recInflight>>
sortVars == <<sortField, sortDirection>>
composerVars == <<searchTerm, debouncedSearchTerm, debounceTimer, debounceElapsed,
                  clientStockFilter, selectedPublisher, publishersLoaded, allPublishers,
                  loading, error, clientBooks, pagination, inflight, pubInflight, lastQuery>>
cliVars == <<composerVars, recVars, sortVars, refreshedPage>>
vars == <<sheet, now, catVars, smpVars, cliVars>>

-----------------------------------------------------------------------------
(* Bounds of the model *)

\* longest spreadsheet (data rows) the model explores
MaxRows == 3
\* rows of the spreadsheet the client's server answers from (more than one
\* page of 20)
ClientRows == 21
\* most requests the client has awaiting a response at once
MaxInFlight == 2
\* latest time the server's clock reaches
MaxClock == 2

-----------------------------------------------------------------------------
(* JavaScript numbers *)

NaN == [nan |-> TRUE, val |-> 0]
Num(n) == [nan |-> FALSE, val |-> n]

\* a < b, a > b: every comparison with NaN is false
NumLt(a, b) == ~a.nan /\ ~b.nan /\ a.val < b.val
NumGt(a, b) == NumLt(b, a)

\* a - b, a + b, a * b: NaN propagates
NumSub(a, b) == IF a.nan \/ b.nan THEN NaN ELSE Num(a.val - b.val)
NumAdd(a, b) == IF a.nan \/ b.nan THEN NaN ELSE Num(a.val + b.val)
NumMul(a, b) == IF a.nan \/ b.nan THEN NaN ELSE Num(a.val * b.val)

\* Math.min(a, b): NaN if either argument is NaN
MathMin(a, b) == IF a.nan \/ b.nan THEN NaN ELSE Num(IF a.val < b.val THEN a.val ELSE b.val)

\* Math.ceil(a / b) for a divisor b >= 1 (the only divisors validation lets
\* through) or NaN
MathCeilDiv(a, b) == IF a.nan \/ b.nan THEN NaN ELSE Num(-((-a.val) \div b.val))

\* x || 0 on a number: NaN and 0 are falsy
OrZero(x) == IF x.nan THEN 0 ELSE x.val

-----------------------------------------------------------------------------
(* JavaScript strings *)

Digits == {"0", "1", "2", "3", "4", "5", "6", "7", "8", "9"}
IsDigit(c) == c \in Digits
DigitVal(c) ==
    CASE c = "0" -> 0 [] c = "1" -> 1 [] c = "2" -> 2 [] c = "3" -> 3 [] c = "4" -> 4
      [] c = "5" -> 5 [] c = "6" -> 6 [] c = "7" -> 7 [] c = "8" -> 8 [] c = "9" -> 9

IsSpace(c) == c = " "

\* String.prototype.toLowerCase, on the model's alphabet
LowerChar(c) ==
    CASE c = "A" -> "a" [] c = "K" -> "k" [] c = "L" -> "l" [] c = "P" -> "p"
      [] OTHER -> c
ToLowerCase(s) == [i \in 1..Len(s) |-> LowerChar(s[i])]

RECURSIVE TrimStart(_)
TrimStart(s) == IF s # <<>> /\ IsSpace(Head(s)) THEN TrimStart(Tail(s)) ELSE s
RECURSIVE TrimEnd(_)
TrimEnd(s) ==
    IF s # <<>> /\ IsSpace(s[Len(s)]) THEN TrimEnd(SubSeq(s, 1, Len(s) - 1)) ELSE s
\* String.prototype.trim
Trim(s) == TrimEnd(TrimStart(s))

\* String.prototype.includes
Includes(hay, needle) ==
    \E k \in 0..(Len(hay) - Len(needle)) : SubSeq(hay, k + 1, k + Len(needle)) = needle

RECURSIVE DigitPrefix(_)
DigitPrefix(s) ==
    IF s # <<>> /\ IsDigit(Head(s)) THEN <<Head(s)>> \o DigitPrefix(Tail(s)) ELSE <<>>
RECURSIVE DecimalValue(_)
DecimalValue(ds) ==
    IF ds = <<>> THEN 0
    ELSE 10 * DecimalValue(SubSeq(ds, 1, Len(ds) - 1)) + DigitVal(ds[Len(ds)])

\* parseInt(str): leading white space skipped, an optional sign, then the
\* longest run of decimal digits; NaN when there is no digit.  (No string of
\* the model starts with the radix prefix 0x.)
ParseInt(str) ==
    LET t   == TrimStart(str)
        neg == t # <<>> /\ Head(t) = "-"
        u   == IF t # <<>> /\ Head(t) \in {"-", "+"} THEN Tail(t) ELSE t
        ds  == DigitPrefix(u)
    IN  IF ds = <<>> THEN NaN
        ELSE Num(IF neg THEN 0 - DecimalValue(ds) ELSE DecimalValue(ds))

\* str.replace(/[^\d]/g, '')
StripNonDigits(str) == SelectSeq(str, IsDigit)

\* searchParams.get(name) || dflt : an absent parameter (null) and an empty
\* one ('') are both falsy and take the default; both are <<>> here
ParamOr(raw, dflt) == IF raw = <<>> THEN dflt ELSE raw

\* Array.prototype.slice(start, end): NaN counts as 0, a negative index counts
\* from the end, everything is clamped to [0, length]
RelativeIndex(n, len) ==
    IF n.nan THEN 0
    ELSE IF n.val < 0 THEN (IF len + n.val < 0 THEN 0 ELSE len + n.val)
    ELSE IF n.val > len THEN len ELSE n.val
JsSlice(arr, start, end) ==
    SubSeq(arr, RelativeIndex(start, Len(arr)) + 1, RelativeIndex(end, Len(arr)))

-----------------------------------------------------------------------------
(* The upstream spreadsheet and the record normalizer *)

\* A CSVRow: the seven columns of the export (seq is the sequence-number
\* column).  csv-parse delivers the cells as strings.
CSVRowOf(seq, isbn, title, author, publisher, price, stock) ==
    [seq |-> seq, isbn |-> isbn, title |-> title, author |-> author,
     publisher |-> publisher, price |-> price, stock |-> stock]

\* The rows a spreadsheet of the model is made of: a row in stock, a row with
\* stock "0" and a lower-case publisher, a row with padded cells and a stock
\* whose digits follow a separator, a row whose stock has no digit and whose
\* publisher is literally "all", and a row with an empty ISBN.
RowPool ==
    { CSVRowOf(<<"1">>, <<"1","0">>, <<"K","a">>, <<"L">>, <<"P">>, <<"1",",","0">>, <<"2">>),
      CSVRowOf(<<"2">>, <<"2","0">>, <<"a">>, <<"k">>, <<"p">>, <<"9">>, <<"0">>),
      CSVRowOf(<<"3">>, <<"3","0">>, <<" ","A","L"," ">>, <<>>, <<"P">>, <<>>, <<"0",",","1">>),
      CSVRowOf(<<"4">>, <<"4","0">>, <<"P">>, <<"K","a">>, <<"a","l","l">>, <<"5">>, <<"-">>),
      CSVRowOf(<<"5">>, <<>>, <<"K">>, <<"a">>, <<"P">>, <<"1">>, <<"1">>) }

\* Spreadsheets of up to MaxRows data rows, each row of the pool at most once
\* (the rows of a sheet carry distinct sequence numbers).
Sheets ==
    { s \in UNION { [1..n -> RowPool] : n \in 0..MaxRows } :
        \A i, j \in DOMAIN s : i # j => s[i] # s[j] }

\* route.ts 103-111: one Book per row, every field trimmed
BookOfRow(row) ==
    [id |-> Trim(row.seq), isbn |-> Trim(row.isbn), title |-> Trim(row.title),
     author |-> Trim(row.author), publisher |-> Trim(row.publisher),
     price |-> Trim(row.price), stock |-> Trim(row.stock)]

\* KeepBook without the test of the title
KeepBookIgnoringTitle(book) == book.id # <<>> /\ book.isbn # <<>>

\* route.ts 112: book.id && book.isbn && book.title
KeepBook(book) == book.id # <<>> /\ book.isbn # <<>> /\ book.title # <<>>

\* route.ts 102-112
NormalizeRows(records) ==
    SelectSeq([i \in 1..Len(records) |-> BookOfRow(records[i])], KeepBook)

-----------------------------------------------------------------------------
(* The catalog handler GET /api/books: filters *)

AllStr == <<"a", "l", "l">>

\* SearchMatch with the fields compared as written (toLowerCase left out)
SearchMatchCaseSensitive(book, term) ==
    \/ Includes(book.title, term)
    \/ Includes(book.author, term)
    \/ Includes(book.isbn, term)
    \/ Includes(book.publisher, term)

\* route.ts 123-128 (term is the handler's searchTerm)
SearchMatch(book, term) ==
    \/ Includes(ToLowerCase(book.title), term)
    \/ Includes(ToLowerCase(book.author), term)
    \/ Includes(ToLowerCase(book.isbn), term)
    \/ Includes(ToLowerCase(book.publisher), term)

\* route.ts 117-132
SearchFilter(books, search) ==
    IF search # <<>>
    THEN SelectSeq(books, LAMBDA book : SearchMatch(book, ToLowerCase(search)))
    ELSE books

\* ParsedStock without the removal of the non-digit characters
ParsedStockUnstripped(book) == OrZero(ParseInt(book.stock))

\* route.ts 140: parseInt(book.stock.replace(/[^\d]/g, '')) || 0
ParsedStock(book) == OrZero(ParseInt(StripNonDigits(book.stock)))

\* route.ts 141
StockKeeps(book, stockFilter) ==
    IF stockFilter = "inStock" THEN ParsedStock(book) > 0 ELSE ParsedStock(book) = 0

\* route.ts 135-145
StockFilter(books, stockFilter) ==
    IF stockFilter # "all"
    THEN SelectSeq(books, LAMBDA book : StockKeeps(book, stockFilter))
    ELSE books

\* route.ts 148-155
PublisherFilter(books, publisher) ==
    IF publisher # AllStr
    THEN SelectSeq(books, LAMBDA book : book.publisher = publisher)
    ELSE books

\* route.ts 116-155: search, then stock, then publisher
FilterBooks(books, search, stockFilter, publisher) ==
    PublisherFilter(StockFilter(SearchFilter(books, search), stockFilter), publisher)

-----------------------------------------------------------------------------
(* The catalog handler GET /api/books: parameters, validation, pagination *)

\* route.ts 46: the default of limit
DefaultLimit == <<"2", "0">>
\* route.ts 61: the largest limit accepted
MaxLimit == 1000

\* route.ts 45-49
PageOf(req) == ParseInt(ParamOr(req.page, <<"1">>))
LimitOf(req) == ParseInt(ParamOr(req.limit, DefaultLimit))
SearchOf(req) == Trim(req.search)
StockFilterOf(req) == IF req.stockFilter = "" THEN "all" ELSE req.stockFilter
PublisherOf(req) == ParamOr(req.publisher, AllStr)

\* InvalidPagination without the upper bound on limit
InvalidPaginationNoUpperBound(page, limit) ==
    NumLt(page, Num(1)) \/ NumLt(limit, Num(1))

\* route.ts 61: page < 1 || limit < 1 || limit > 1000
InvalidPagination(page, limit) ==
    NumLt(page, Num(1)) \/ NumLt(limit, Num(1)) \/ NumGt(limit, Num(MaxLimit))

\* route.ts 159
TotalPages(total, limit) == MathCeilDiv(Num(total), limit)
\* StartIndex counting pages from 0
StartIndexOffByOne(page, limit) == NumMul(page, limit)
\* route.ts 160
StartIndex(page, limit) == NumMul(NumSub(page, Num(1)), limit)
\* EndIndex one position further, so that consecutive pages overlap
EndIndexOverlapping(startIndex, limit) == NumAdd(NumAdd(startIndex, limit), Num(1))
\* route.ts 161
EndIndex(startIndex, limit) == NumAdd(startIndex, limit)
\* HasNext with <= in place of <
HasNextInclusive(page, totalPages) ==
    ~page.nan /\ ~totalPages.nan /\ page.val <= totalPages.val
\* route.ts 171
HasNext(page, totalPages) == NumLt(page, totalPages)
\* route.ts 172
HasPrev(page) == NumGt(page, Num(1))

\* Total counted on the rows upstream holds now instead of on the books of
\* this request
TotalOfLiveSheet(books) ==
    Len(FilterBooks(NormalizeRows(sheet), SearchOf(catReq), StockFilterOf(catReq),
                    PublisherOf(catReq)))

\* route.ts 158
Total(books) == Len(books)

\* route.ts 157-179: the 200 response for the filtered books
PaginatedResponse(books, page, limit) ==
    LET total      == Total(books)
        totalPages == TotalPages(total, limit)
        startIndex == StartIndex(page, limit)
        endIndex   == EndIndex(startIndex, limit)
    IN  [status |-> 200,
         books |-> JsSlice(books, startIndex, endIndex),
         pagination |-> [page |-> page, limit |-> limit, total |-> total,
                         totalPages |-> totalPages,
                         hasNext |-> HasNext(page, totalPages),
                         hasPrev |-> HasPrev(page)]]

\* route.ts 175-179: response_data, the 200 response with the time the
\* request started
ResponseData(response, fetchStartTime) ==
    [status |-> response.status, books |-> response.books,
     pagination |-> response.pagination, lastUpdated |-> fetchStartTime]

\* route.ts 93-179: parse, normalize, filter, paginate
QueryResponse(records, req) ==
    PaginatedResponse(
        FilterBooks(NormalizeRows(records), SearchOf(req), StockFilterOf(req),
                    PublisherOf(req)),
        PageOf(req), LimitOf(req))

NoResponse == [status |-> 0]

\* raw URL parameters the model sends
PageParams == { <<>>, <<"0">>, <<"2">>, <<"3">>, <<"a">> }
LimitParams == { <<>>, <<"1">>, <<"2">>, <<"0">>, <<"1","0","0","0">>, <<"1","0","0","1">>, <<"a">> }
SearchParams == { <<>>, <<" ","K">> }
StockFilterParams == { "", "inStock", "outOfStock" }
PublisherParams == { <<>>, <<"P">>, <<"p">> }
CatalogRequests ==
    [page : PageParams, limit : LimitParams, search : SearchParams,
     stockFilter : StockFilterParams, publisher : PublisherParams]
NoRequest ==
    [page |-> <<>>, limit |-> <<>>, search |-> <<>>, stockFilter |-> "",
     publisher |-> <<>>]

\* what the upstream fetch and the CSV parse can do
UpstreamOutcomes == { "ok", "notOk", "throw", "malformed" }

\* route.ts 43-82: read the parameters, validate, start the upstream fetch
GETStart(req) ==
    /\ catPc = "idle"
    /\ catReq' = req
    /\ IF InvalidPagination(PageOf(req), LimitOf(req))
       THEN /\ catPc' = "done"
            /\ catResp' = [status |-> 400, error |-> "Invalid pagination parameters"]
            /\ catFetches' = 0
            /\ UNCHANGED catStartTime
       ELSE /\ catPc' = "fetching"
            /\ catResp' = NoResponse
            /\ catFetches' = 1
            /\ catStartTime' = now
    /\ catUpstream' = "none"
    /\ UNCHANGED <<sheet, now, catText, catKept, smpVars, cliVars>>

\* ResponseNotOk with the check of response.ok left out
ResponseNotOkIgnored(upstream) == FALSE

\* route.ts 84: !response.ok
ResponseNotOk(upstream) == upstream = "notOk"

\* route.ts 72-89: the fetch settles.  It throws (188-195), or the response is
\* not ok (84-87), or csvText becomes the body: the rows upstream holds now
GETFetched(upstream) ==
    /\ catPc = "fetching"
    /\ catUpstream' = upstream
    /\ IF upstream = "throw"
       THEN /\ catPc' = "done"
            /\ catResp' = [status |-> 500, error |-> "fetch failed", details |-> "stack"]
            /\ UNCHANGED catText
       ELSE IF ResponseNotOk(upstream)
       THEN /\ catPc' = "done"
            /\ catResp' = [status |-> 500, error |-> "Failed to fetch sheet"]
            /\ UNCHANGED catText
       ELSE /\ catPc' = "parsing"
            /\ catText' = sheet
            /\ UNCHANGED catResp
    /\ UNCHANGED <<sheet, now, catReq, catFetches, catStartTime, catKept, smpVars, cliVars>>

\* route.ts 93-195: parse csvText (a malformed text throws), normalize, filter,
\* paginate, answer
GETFinish ==
    /\ catPc = "parsing"
    /\ catPc' = "done"
    /\ catResp' =
         IF catUpstream = "malformed"
         THEN [status |-> 500, error |-> "parse error", details |-> "stack"]
         ELSE ResponseData(QueryResponse(catText, catReq), catStartTime)
    /\ UNCHANGED <<sheet, now, catReq, catFetches, catUpstream, catText, catStartTime,
                   catKept, smpVars, cliVars>>

\* route.ts 62, 86, 181, 191: the response is returned and the invocation ends
GETReturn ==
    /\ catPc = "done"
    /\ catPc' = "idle"
    /\ catReq' = NoRequest
    /\ catResp' = NoResponse
    /\ catFetches' = 0
    /\ catUpstream' = "none"
    /\ catText' = <<>>
    /\ catStartTime' = 0
    /\ UNCHANGED <<sheet, now, catKept, smpVars, cliVars>>

CatalogIdle ==
    /\ catPc = "idle"
    /\ catReq = NoRequest
    /\ catResp = NoResponse
    /\ catFetches = 0
    /\ catUpstream = "none"
    /\ catText = <<>>
    /\ catStartTime = 0
    /\ catKept = {}

\* time passes on the server
Tick ==
    /\ now < MaxClock
    /\ now' = now + 1
    /\ UNCHANGED <<sheet, catVars, smpVars, cliVars>>

\* the caller of the catalog endpoint keeps the first 200 answer it gets,
\* with the snapshot and the query it answers
AnswerKept ==
    /\ catPc = "done"
    /\ catResp.status = 200
    /\ catKept = {}
    /\ catKept' = { [text |-> catText, req |-> catReq, resp |-> catResp] }
    /\ UNCHANGED <<catPc, catReq, catResp, catFetches, catUpstream, catText, catStartTime>>
    /\ UNCHANGED <<sheet, now, smpVars, cliVars>>

CatalogNext ==
    \/ \E req \in CatalogRequests : GETStart(req)
    \/ \E upstream \in UpstreamOutcomes : GETFetched(upstream)
    \/ GETFinish
    \/ GETReturn

-----------------------------------------------------------------------------
(* The sample handler GET /api/books/random *)

\* part_000 37: the default of count
DefaultCount == <<"5">>
\* part_000 37: the largest count
MaxCount == 20

\* part_000 37: Math.min(parseInt(searchParams.get('count') || '5'), 20)
CountOf(req) == MathMin(ParseInt(ParamOr(req.count, DefaultCount)), Num(MaxCount))
\* part_000 38: searchParams.get('includeOutOfStock') === 'true'
IncludeOutOfStockOf(req) == req.includeOutOfStock = "true"

\* InStock with >= in place of >
InStockOrZero(book) == OrZero(ParseInt(StripNonDigits(book.stock))) >= 0

\* part_000 94-95
InStock(book) == OrZero(ParseInt(StripNonDigits(book.stock))) > 0

\* part_000 76-98: the books the sample is drawn from
EligibleBooks(records, includeOutOfStock) ==
    IF ~includeOutOfStock
    THEN SelectSeq(NormalizeRows(records), InStock)
    ELSE NormalizeRows(records)

\* part_000 110
ActualCount(count, books) == MathMin(count, Num(Len(books)))

\* Swap that overwrites position i and leaves position j as it was
SwapHalf(arr, i, j) == [arr EXCEPT ![i + 1] = arr[j + 1]]

\* part_000 116: [shuffled[i], shuffled[j]] = [shuffled[j], shuffled[i]]
\* (i and j are the source's 0-based indices)
Swap(arr, i, j) == [arr EXCEPT ![i + 1] = arr[j + 1], ![j + 1] = arr[i + 1]]

\* RandomIndex with Math.random() * i in place of Math.random() * (i + 1)
RandomIndexExclusive(i) == 0..(i - 1)

\* part_000 115: the values Math.floor(Math.random() * (i + 1)) can take
RandomIndex(i) == 0..i

\* part_000 114-115: the sequences of values j the loop can draw while it
\* shuffles n books: one value for each i from n - 1 down to 1
DrawSequences(n) ==
    IF n <= 1 THEN { <<>> }
    ELSE { d \in [1..(n - 1) -> 0..(n - 1)] :
             \A t \in 1..(n - 1) : d[t] \in RandomIndex(n - t) }

RECURSIVE ShuffleFrom(_, _, _)
\* part_000 114-117: the loop from its t-th iteration on, drawing d[t], d[t+1], ...
ShuffleFrom(arr, d, t) ==
    IF t > Len(d) THEN arr
    ELSE ShuffleFrom(Swap(arr, Len(arr) - t, d[t]), d, t + 1)

\* part_000 113-117: shuffled after the whole loop, for the draws d
FisherYates(books, d) == ShuffleFrom(books, d, 1)

\* part_000 119-127
SampleResponse(shuf, count, books) ==
    [status |-> 200,
     recommendations |-> JsSlice(shuf, Num(0), ActualCount(count, books)),
     total |-> Len(books)]

CountParams == { <<>>, <<"0">>, <<"1">>, <<"2">>, <<"-","1">>, <<"2","5">>, <<"a">> }
IncludeParams == { "", "true", "false" }
SampleRequests == [count : CountParams, includeOutOfStock : IncludeParams]
NoSampleRequest == [count |-> <<>>, includeOutOfStock |-> ""]

\* part_000 35-57: read the parameters, start the upstream fetch
RandomStart(req) ==
    /\ smpPc = "idle"
    /\ smpReq' = req
    /\ smpPc' = "fetching"
    /\ UNCHANGED <<sheet, now, catVars, cliVars, smpBooks, shuffled, smpI, draws, smpResp, smpUpstream,
                   smpText>>

\* part_000 59-113: the fetch settles; an error answer, the empty answer, or
\* the eligible books copied into shuffled and the loop started at the last index
RandomFetched(upstream) ==
    /\ smpPc = "fetching"
    /\ smpUpstream' = upstream
    /\ LET books == EligibleBooks(sheet, IncludeOutOfStockOf(smpReq))
       IN  IF upstream # "ok"
           THEN /\ smpResp' =
                     CASE upstream = "notOk" ->
                            [status |-> 500, error |-> "Failed to fetch sheet"]
                       [] upstream = "throw" ->
                            [status |-> 500, error |-> "fetch failed", details |-> "stack"]
                       [] OTHER ->
                            [status |-> 500, error |-> "parse error", details |-> "stack"]
                /\ smpPc' = "done"
                /\ UNCHANGED <<smpBooks, shuffled, smpI, smpText>>
           ELSE IF Len(books) = 0
           THEN /\ smpResp' = [status |-> 200, recommendations |-> <<>>, total |-> 0]
                /\ smpPc' = "done"
                /\ smpText' = sheet
                /\ smpBooks' = books
                /\ UNCHANGED <<shuffled, smpI>>
           ELSE /\ smpText' = sheet
                /\ smpBooks' = books
                /\ shuffled' = books
                /\ smpI' = Len(books) - 1
                /\ smpPc' = "shuffling"
                /\ UNCHANGED smpResp
    /\ UNCHANGED <<sheet, now, catVars, cliVars, smpReq, draws>>

\* BooksBesideShuffled for a shuffled that is books itself, not a copy of it
BooksAliasedToShuffled(books, arr) == arr

\* part_000 113: shuffled = [...books] is a copy, so books is what it was
\* whatever is assigned to the elements of shuffled (arr)
BooksBesideShuffled(books, arr) == books

\* part_000 114-117: one iteration of the Fisher-Yates loop, j drawn from 0..i
ShuffleStep(j) ==
    /\ smpPc = "shuffling"
    /\ smpI > 0
    /\ j \in RandomIndex(smpI)
    /\ shuffled' = Swap(shuffled, smpI, j)
    /\ smpBooks' = BooksBesideShuffled(smpBooks, shuffled')
    /\ smpI' = smpI - 1
    /\ draws' = Append(draws, j)
    /\ UNCHANGED <<sheet, now, catVars, cliVars, smpPc, smpReq, smpResp, smpUpstream, smpText>>

\* part_000 119-135: the loop is over (i > 0 fails); answer
RandomFinish ==
    /\ smpPc = "shuffling"
    /\ ~(smpI > 0)
    /\ smpResp' = SampleResponse(shuffled, CountOf(smpReq), smpBooks)
    /\ smpPc' = "done"
    /\ UNCHANGED <<sheet, now, catVars, cliVars, smpReq, smpBooks, shuffled, smpI, draws, smpUpstream,
                   smpText>>

\* part_000 61, 102, 129, 139: the response is returned and the invocation ends
RandomReturn ==
    /\ smpPc = "done"
    /\ smpPc' = "idle"
    /\ smpReq' = NoSampleRequest
    /\ smpBooks' = <<>>
    /\ shuffled' = <<>>
    /\ smpI' = 0
    /\ draws' = <<>>
    /\ smpResp' = NoResponse
    /\ smpUpstream' = "none"
    /\ smpText' = <<>>
    /\ UNCHANGED <<sheet, now, catVars, cliVars>>

SampleIdle ==
    /\ smpPc = "idle"
    /\ smpReq = NoSampleRequest
    /\ smpBooks = <<>>
    /\ shuffled = <<>>
    /\ smpI = 0
    /\ draws = <<>>
    /\ smpResp = NoResponse
    /\ smpUpstream = "none"
    /\ smpText = <<>>

SampleNext ==
    \/ \E req \in SampleRequests : RandomStart(req)
    \/ \E upstream \in UpstreamOutcomes : RandomFetched(upstream)
    \/ \E j \in 0..MaxRows : ShuffleStep(j)
    \/ RandomFinish
    \/ RandomReturn

-----------------------------------------------------------------------------
(* The client BookInventoryPage: the catalog query composer *)

DigitChar(d) ==
    CASE d = 0 -> "0" [] d = 1 -> "1" [] d = 2 -> "2" [] d = 3 -> "3" [] d = 4 -> "4"
      [] d = 5 -> "5" [] d = 6 -> "6" [] d = 7 -> "7" [] d = 8 -> "8" [] d = 9 -> "9"
RECURSIVE DigitsOf(_)
\* Number.prototype.toString of a non-negative integer
DigitsOf(n) == IF n < 10 THEN <<DigitChar(n)>> ELSE DigitsOf(n \div 10) \o <<DigitChar(n % 10)>>

\* The spreadsheet behind the server the client talks to: ClientRows rows,
\* every fourth out of stock, publishers "P" and "p" and titles "K" and "a"
\* alternating.
ClientSheet ==
    [i \in 1..ClientRows |->
        CSVRowOf(DigitsOf(i), DigitsOf(i),
                 IF i % 2 = 1 THEN <<"K">> ELSE <<"a">>,
                 <<"L">>,
                 IF i % 2 = 1 THEN <<"P">> ELSE <<"p">>,
                 <<"9">>,
                 IF i % 4 = 0 THEN <<"0">> ELSE DigitsOf(i))]

\* layout.tsx 163-170: the pagination state before any response
InitialPagination ==
    [page |-> Num(1), limit |-> Num(20), total |-> 0, totalPages |-> Num(0),
     hasNext |-> FALSE, hasPrev |-> FALSE]

\* layout.tsx 266-284, 288: the parameters fetchBooks(page) sends, with the
\* filter values its closure holds
BooksUrlParams(call) ==
    [page |-> DigitsOf(call.page),
     limit |-> <<"2", "0">>,
     search |-> Trim(call.search),
     stockFilter |-> IF call.stockFilter # "all" THEN call.stockFilter ELSE "",
     publisher |-> IF call.publisher # AllStr THEN call.publisher ELSE <<>>]

SearchInputs == { <<>>, <<"K">> }
StockFilters == { "all", "inStock", "outOfStock" }
Publishers == { AllStr, <<"P">> }
\* the pages the client can ask for: page 1 and the pages of the answers
ClientPages == 1..(1 + ClientRows \div 20)

\* the server's answers to the requests the client can send, when the
\* upstream is reachable
ServerAnswers ==
    [params \in { BooksUrlParams([page |-> pg, search |-> se, stockFilter |-> st,
                                   publisher |-> pu]) :
                    pg \in ClientPages, se \in SearchInputs, st \in StockFilters,
                    pu \in Publishers }
       |-> QueryResponse(ClientSheet, params)]

\* the server's answer to a fetchBooks call
BooksAnswer(call) == ServerAnswers[BooksUrlParams(call)]

\* layout.tsx 243: the parameters loadPublishers sends
PublishersUrlParams ==
    [page |-> <<>>, limit |-> <<"1", "0", "0", "0">>, search |-> <<>>,
     stockFilter |-> "", publisher |-> <<>>]

\* layout.tsx 245-247: the publishers of the answer
PublishersAnswer ==
    LET data == QueryResponse(ClientSheet, PublishersUrlParams)
    IN  { data.books[i].publisher : i \in 1..Len(data.books) }

\* a fetchBooks call: the page asked for and what the closure captured
\* (layout.tsx 256, 314)
BooksCall(page, search, stock, publisher, loaded) ==
    [page |-> page, search |-> search, stockFilter |-> stock,
     publisher |-> publisher, publishersLoaded |-> loaded]

\* EffectCalls without the effect of lines 316-319: a call only when a filter
\* is not at its default
EffectCallsOnlyWhenFiltered(search, stock, publisher, loaded) ==
    IF search # <<>> \/ stock # "all" \/ publisher # AllStr
    THEN << [page |-> 1, search |-> search, stockFilter |-> stock,
             publisher |-> publisher, publishersLoaded |-> loaded] >>
    ELSE <<>>

\* layout.tsx 316-319 and 342-347: the two effects that run after a render in
\* which debouncedSearchTerm, clientStockFilter, selectedPublisher or
\* publishersLoaded changed: fetchBooks(1), and fetchBooks(1) again when a
\* filter is not at its default.  The calls they make, in order.
EffectCalls(search, stock, publisher, loaded) ==
    LET call == BooksCall(1, search, stock, publisher, loaded)
    IN  IF search # <<>> \/ stock # "all" \/ publisher # AllStr
        THEN <<call, call>>
        ELSE <<call>>

RECURSIVE BagOfSeq(_)
BagOfSeq(calls) ==
    IF calls = <<>> THEN EmptyBag ELSE SetToBag({Head(calls)}) (+) BagOfSeq(Tail(calls))

Outstanding == BagCardinality(inflight) + pubInflight

\* layout.tsx 256-288: fetchBooks up to its await, for each call of calls in
\* order: loading on, error cleared, the request sent
IssueCalls(calls) ==
    IF calls = <<>>
    THEN UNCHANGED <<loading, error, inflight, lastQuery>>
    ELSE /\ BagCardinality(inflight) + Len(calls) + pubInflight' <= MaxInFlight
         /\ loading' = TRUE
         /\ error' = "null"
         /\ inflight' = inflight (+) BagOfSeq(calls)
         /\ lastQuery' = calls[Len(calls)]

\* the effects of a render in which the filter state became the primed one
RunEffects ==
    IssueCalls(
        IF <<debouncedSearchTerm', clientStockFilter', selectedPublisher', publishersLoaded'>>
             # <<debouncedSearchTerm, clientStockFilter, selectedPublisher, publishersLoaded>>
        THEN EffectCalls(debouncedSearchTerm', clientStockFilter', selectedPublisher',
                         publishersLoaded')
        ELSE <<>>)

\* layout.tsx 421-424 and 200-207: the input changes; the debounce effect
\* clears the pending timer and arms a new one
HandleSearchChange(value) ==
    /\ value # searchTerm
    /\ searchTerm' = value
    /\ debounceTimer' = TRUE
    /\ debounceElapsed' = 0
    /\ UNCHANGED <<debouncedSearchTerm, clientStockFilter, selectedPublisher, publishersLoaded,
                   allPublishers, loading, error, clientBooks, pagination, inflight,
                   pubInflight, lastQuery>>
    /\ UNCHANGED <<sheet, now, catVars, smpVars, recVars, sortVars, refreshedPage>>

\* layout.tsx 204: the delay of the debounce timer, in ms
DebounceDelay == 300

\* the amounts of time the model lets pass in one step, in ms
ElapseSteps == { 100, 200 }

\* time passes while the debounce timer is pending
Elapse(ms) ==
    /\ debounceTimer
    /\ debounceElapsed < DebounceDelay
    /\ debounceElapsed' =
         IF debounceElapsed + ms > DebounceDelay THEN DebounceDelay ELSE debounceElapsed + ms
    /\ UNCHANGED <<searchTerm, debouncedSearchTerm, debounceTimer, clientStockFilter,
                   selectedPublisher, publishersLoaded, allPublishers, loading, error,
                   clientBooks, pagination, inflight, pubInflight, lastQuery>>
    /\ UNCHANGED <<sheet, now, catVars, smpVars, recVars, sortVars, refreshedPage>>

\* TimerDue for a timer that fires as soon as it is set
TimerDueAtOnce(elapsed) == elapsed >= 0

\* layout.tsx 202-204: setTimeout(..., 300) fires once its delay has passed
TimerDue(elapsed) == elapsed >= DebounceDelay

\* layout.tsx 202-204: the debounce timer fires
DebounceTimeout ==
    /\ debounceTimer
    /\ TimerDue(debounceElapsed)
    /\ debounceTimer' = FALSE
    /\ debounceElapsed' = 0
    /\ debouncedSearchTerm' = searchTerm
    /\ UNCHANGED <<searchTerm, clientStockFilter, selectedPublisher, publishersLoaded,
                   allPublishers, clientBooks, pagination, pubInflight>>
    /\ RunEffects
    /\ refreshedPage' = IF searchTerm # debouncedSearchTerm THEN 0 ELSE refreshedPage
    /\ UNCHANGED <<sheet, now, catVars, smpVars, recVars, sortVars>>

\* layout.tsx 426-429
HandleStockFilterChange(value) ==
    /\ value # clientStockFilter
    /\ clientStockFilter' = value
    /\ UNCHANGED <<searchTerm, debouncedSearchTerm, debounceTimer, debounceElapsed, selectedPublisher,
                   publishersLoaded, allPublishers, clientBooks, pagination, pubInflight>>
    /\ RunEffects
    /\ refreshedPage' = 0
    /\ UNCHANGED <<sheet, now, catVars, smpVars, recVars, sortVars>>

\* layout.tsx 431-434
HandlePublisherChange(value) ==
    /\ value # selectedPublisher
    /\ selectedPublisher' = value
    /\ UNCHANGED <<searchTerm, debouncedSearchTerm, debounceTimer, debounceElapsed, clientStockFilter,
                   publishersLoaded, allPublishers, clientBooks, pagination, pubInflight>>
    /\ RunEffects
    /\ refreshedPage' = 0
    /\ UNCHANGED <<sheet, now, catVars, smpVars, recVars, sortVars>>

\* layout.tsx 414-419
HandlePageChange(newPage) ==
    /\ newPage >= 1
    /\ NumLt(Num(newPage - 1), pagination.totalPages)
    /\ UNCHANGED <<searchTerm, debouncedSearchTerm, debounceTimer, debounceElapsed, clientStockFilter,
                   selectedPublisher, publishersLoaded, allPublishers, clientBooks,
                   pagination, pubInflight>>
    /\ IssueCalls(<<BooksCall(newPage, debouncedSearchTerm, clientStockFilter,
                              selectedPublisher, publishersLoaded)>>)
    /\ refreshedPage' = 0
    /\ UNCHANGED <<sheet, now, catVars, smpVars, recVars, sortVars>>

\* layout.tsx 408-412: publishersLoaded is cleared and the page shown is
\* fetched again by the fetchBooks of the current render; the render that
\* follows runs the effects if publishersLoaded changed
HandleManualRefresh ==
    /\ ~pagination.page.nan
    /\ publishersLoaded' = FALSE
    /\ UNCHANGED <<searchTerm, debouncedSearchTerm, debounceTimer, debounceElapsed, clientStockFilter,
                   selectedPublisher, allPublishers, clientBooks, pagination, pubInflight>>
    /\ IssueCalls(
         <<BooksCall(pagination.page.val, debouncedSearchTerm, clientStockFilter,
                     selectedPublisher, publishersLoaded)>>
         \o (IF publishersLoaded
             THEN EffectCalls(debouncedSearchTerm, clientStockFilter, selectedPublisher, FALSE)
             ELSE <<>>))
    /\ refreshedPage' = IF Outstanding = 0 THEN pagination.page.val ELSE 0
    /\ UNCHANGED <<sheet, now, catVars, smpVars, recVars, sortVars>>

\* layout.tsx 288-313: the response of a fetchBooks call arrives.  ok: books
\* and pagination are set from it and, if the call's closure saw
\* publishersLoaded false, loadPublishers sends its request (239-243).
\* Otherwise the error is set.  Either way loading is cleared.
FetchBooksSettle(call, ok) ==
    /\ BagIn(call, inflight)
    /\ inflight' = inflight (-) SetToBag({call})
    /\ IF ok
       THEN /\ clientBooks' = BooksAnswer(call).books
            /\ pagination' = BooksAnswer(call).pagination
            /\ pubInflight' = IF ~call.publishersLoaded THEN pubInflight + 1 ELSE pubInflight
            /\ UNCHANGED error
       ELSE /\ error' = "fetch failed"
            /\ UNCHANGED <<clientBooks, pagination, pubInflight>>
    /\ loading' = FALSE
    /\ UNCHANGED <<searchTerm, debouncedSearchTerm, debounceTimer, debounceElapsed, clientStockFilter,
                   selectedPublisher, publishersLoaded, allPublishers, lastQuery>>
    /\ UNCHANGED <<sheet, now, catVars, smpVars, recVars, sortVars, refreshedPage>>

\* layout.tsx 243-252: the response of loadPublishers arrives.  ok: the list
\* is set and publishersLoaded becomes true, and the render that follows runs
\* the effects if it changed.  Otherwise nothing is set.
LoadPublishersSettle(ok) ==
    /\ pubInflight > 0
    /\ pubInflight' = pubInflight - 1
    /\ IF ok
       THEN /\ allPublishers' = PublishersAnswer
            /\ publishersLoaded' = TRUE
       ELSE UNCHANGED <<allPublishers, publishersLoaded>>
    /\ UNCHANGED <<searchTerm, debouncedSearchTerm, debounceTimer, debounceElapsed, clientStockFilter,
                   selectedPublisher, clientBooks, pagination>>
    /\ RunEffects
    /\ UNCHANGED <<sheet, now, catVars, smpVars, recVars, sortVars, refreshedPage>>

\* layout.tsx 162-187 and the effects of the first render (201-207, 317-319,
\* 322-325, 343-347): the timer armed, fetchBooks(1) sent twice
\* (clientStockFilter starts at 'inStock'), fetchRecommendations sent
ClientMounted ==
    /\ searchTerm = <<>>
    /\ debouncedSearchTerm = <<>>
    /\ debounceTimer = TRUE
    /\ debounceElapsed = 0
    /\ clientStockFilter = "inStock"
    /\ selectedPublisher = AllStr
    /\ publishersLoaded = FALSE
    /\ allPublishers = {}
    /\ loading = TRUE
    /\ error = "null"
    /\ clientBooks = <<>>
    /\ pagination = InitialPagination
    /\ inflight = BagOfSeq(EffectCalls(<<>>, "inStock", AllStr, FALSE))
    /\ pubInflight = 0
    /\ lastQuery = BooksCall(1, <<>>, "inStock", AllStr, FALSE)
    /\ recommendations = <<>>
    /\ recommendationsLoading = TRUE
    /\ recommendationsError = "null"
    /\ recInflight = 1
    /\ sortField = "title"
    /\ sortDirection = "asc"
    /\ refreshedPage = 0

-----------------------------------------------------------------------------
(* The client BookInventoryPage: recommendations and the sort selection *)

\* layout.tsx 355: the parameters fetchRecommendations sends
RecommendationsUrlParams == [count |-> <<"5">>, includeOutOfStock |-> ""]

\* answers of the sample endpoint to fetchRecommendations: the sample of a
\* loop that draws j = i every time, and of one that draws j = 0 every time
RecommendationAnswers ==
    LET books == EligibleBooks(ClientSheet, IncludeOutOfStockOf(RecommendationsUrlParams))
        n     == Len(books)
    IN  { SampleResponse(FisherYates(books, d), CountOf(RecommendationsUrlParams),
                         books).recommendations :
            d \in { [t \in 1..(n - 1) |-> n - t], [t \in 1..(n - 1) |-> 0] } }

\* layout.tsx 350-355, called by the button of 806-807 (disabled while
\* recommendationsLoading): fetchRecommendations up to its await
FetchRecommendations ==
    /\ ~recommendationsLoading
    /\ recommendationsLoading' = TRUE
    /\ recommendationsError' = "null"
    /\ recInflight' = recInflight + 1
    /\ UNCHANGED <<recommendations, composerVars, sortVars, refreshedPage>>
    /\ UNCHANGED <<sheet, now, catVars, smpVars>>

\* RecommendationsFinally clearing the catalog's loading flag
RecommendationsFinallyCatalog(flags) == [flags EXCEPT !.loading = FALSE]

\* layout.tsx 365-367: finally { setRecommendationsLoading(false) }
RecommendationsFinally(flags) == [flags EXCEPT !.recommendationsLoading = FALSE]

\* layout.tsx 355-367: the response of fetchRecommendations arrives.  ok: the
\* recommendations are set from it.  Otherwise the error is set.  Either way
\* the loading flag is cleared.
FetchRecommendationsSettle(ok, answer) ==
    /\ recInflight > 0
    /\ recInflight' = recInflight - 1
    /\ IF ok
       THEN /\ recommendations' = answer
            /\ UNCHANGED recommendationsError
       ELSE /\ recommendationsError' = "recommendations failed"
            /\ UNCHANGED recommendations
    /\ LET flags == RecommendationsFinally(
                        [loading |-> loading,
                         recommendationsLoading |-> recommendationsLoading])
       IN  /\ loading' = flags.loading
           /\ recommendationsLoading' = flags.recommendationsLoading
    /\ UNCHANGED <<searchTerm, debouncedSearchTerm, debounceTimer, debounceElapsed,
                   clientStockFilter, selectedPublisher, publishersLoaded, allPublishers,
                   error, clientBooks, pagination, inflight, pubInflight, lastQuery>>
    /\ UNCHANGED <<sheet, now, catVars, smpVars, sortVars, refreshedPage>>

\* layout.tsx 462-465: getStockStatus(stock).status
GetStockStatus(stock) ==
    IF OrZero(ParseInt(stock)) > 0 THEN "in-stock" ELSE "out-of-stock"

SortFields == { "title", "author", "publisher", "price", "stock" }

\* NextSort keeping the direction when another field is selected
NextSortKeepsDirection(field, activeField, direction) ==
    IF activeField = field
    THEN [field |-> activeField, direction |-> IF direction = "asc" THEN "desc" ELSE "asc"]
    ELSE [field |-> field, direction |-> direction]

\* layout.tsx 468-473: the sort field and direction after field is selected
NextSort(field, activeField, direction) ==
    IF activeField = field
    THEN [field |-> activeField, direction |-> IF direction = "asc" THEN "desc" ELSE "asc"]
    ELSE [field |-> field, direction |-> "asc"]

\* layout.tsx 467-474
HandleSort(field) ==
    /\ sortField' = NextSort(field, sortField, sortDirection).field
    /\ sortDirection' = NextSort(field, sortField, sortDirection).direction
    /\ UNCHANGED <<composerVars, recVars, refreshedPage>>
    /\ UNCHANGED <<sheet, now, catVars, smpVars>>

\* the page without the search box and the publisher filter: stock filter
\* changes, answers arriving, page changes and refreshes
PageNext ==
    \/ \E value \in StockFilters : HandleStockFilterChange(value)
    \/ \E call \in DOMAIN inflight, ok \in BOOLEAN : FetchBooksSettle(call, ok)
    \/ \E ok \in BOOLEAN : LoadPublishersSettle(ok)
    \/ \E newPage \in ClientPages : HandlePageChange(newPage)
    \/ HandleManualRefresh

\* the page and its recommendations
RecommendationsNext ==
    \/ PageNext
    \/ FetchRecommendations
    \/ \E ok \in BOOLEAN, answer \in RecommendationAnswers :
          FetchRecommendationsSettle(ok, answer)

\* the page and its sort selection
SortNext ==
    \/ PageNext
    \/ \E field \in SortFields : HandleSort(field)

ClientNext ==
    \/ \E value \in SearchInputs : HandleSearchChange(value)
    \/ \E ms \in ElapseSteps : Elapse(ms)
    \/ DebounceTimeout
    \/ \E value \in StockFilters : HandleStockFilterChange(value)
    \/ \E value \in Publishers : HandlePublisherChange(value)
    \/ \E newPage \in ClientPages : HandlePageChange(newPage)
    \/ HandleManualRefresh
    \/ \E call \in DOMAIN inflight, ok \in BOOLEAN : FetchBooksSettle(call, ok)
    \/ \E ok \in BOOLEAN : LoadPublishersSettle(ok)

-----------------------------------------------------------------------------
(* The upstream spreadsheet being edited while the endpoints serve requests *)

\* The spreadsheets of the server specification: rows with padded cells, rows
\* whose sequence number, ISBN or title is blank, rows in and out of stock.
ServerSheets ==
    LET padded     == CSVRowOf(<<" ","1">>, <<"1","0"," ">>, <<" ","K"," ">>, <<"L">>, <<"P">>,
                               <<"9">>, <<"2">>)
        outOfStock == CSVRowOf(<<"2">>, <<"2","0">>, <<"a">>, <<"k">>, <<"p">>, <<"9">>, <<"0">>)
        noSeq      == CSVRowOf(<<" ">>, <<"3","0">>, <<"K">>, <<"L">>, <<"P">>, <<"9">>, <<"1">>)
        noIsbn     == CSVRowOf(<<"4">>, <<>>, <<"K">>, <<"L">>, <<"P">>, <<"9">>, <<"1">>)
        noTitle    == CSVRowOf(<<"5">>, <<"5","0">>, <<" "," ">>, <<"L">>, <<"P">>, <<"9">>, <<"1">>)
        inStock    == CSVRowOf(<<"6">>, <<"6","0">>, <<"K","a">>, <<"L">>, <<"P">>, <<"9">>,
                               <<"0",",","1">>)
    IN  { <<padded, noSeq, outOfStock>>,
          <<noIsbn, inStock, padded>>,
          <<outOfStock, noTitle, inStock>>,
          <<inStock, outOfStock, padded>>,
          <<noSeq, noTitle>> }

\* the requests of the server specification
ServerCatalogRequests ==
    { NoRequest,
      [NoRequest EXCEPT !.page = <<"2">>, !.limit = <<"1">>],
      [NoRequest EXCEPT !.stockFilter = "inStock", !.limit = <<"1">>] }
ServerSampleRequests ==
    { NoSampleRequest, [count |-> <<"1">>, includeOutOfStock |-> "true"] }

\* route.ts 65-66, part_000 42-43: the spreadsheet behind csvUrl is edited, or
\* the copy a cache serves is refreshed: what a fetch returns from now on is
\* replaced as a whole
SheetReplaced(s) ==
    /\ s # sheet
    /\ sheet' = s
    /\ UNCHANGED <<now, catVars, smpVars, cliVars>>

ServerNext ==
    \/ \E req \in ServerCatalogRequests : GETStart(req)
    \/ \E upstream \in UpstreamOutcomes : GETFetched(upstream)
    \/ GETFinish
    \/ GETReturn
    \/ \E req \in ServerSampleRequests : RandomStart(req)
    \/ \E upstream \in UpstreamOutcomes : RandomFetched(upstream)
    \/ \E j \in 0..MaxRows : ShuffleStep(j)
    \/ RandomFinish
    \/ RandomReturn
    \/ \E s \in ServerSheets : SheetReplaced(s)

-----------------------------------------------------------------------------
(* Specifications *)

Init ==
    /\ sheet \in Sheets
    /\ now = 0
    /\ CatalogIdle
    /\ SampleIdle
    /\ ClientMounted

\* the catalog endpoint serving requests
CatalogSpec == Init /\ [][CatalogNext]_vars

\* the sample endpoint serving requests
SampleSpec == Init /\ [][SampleNext]_vars

\* the client, talking to a server whose spreadsheet is ClientSheet
ClientInit ==
    /\ sheet = ClientSheet
    /\ now = 0
    /\ CatalogIdle
    /\ SampleIdle
    /\ ClientMounted

ClientSpec == ClientInit /\ [][ClientNext]_vars

\* the client's catalog page: stock filter changes, page changes, refreshes
PageSpec == ClientInit /\ [][PageNext]_vars

\* the client's catalog page and its recommendations
RecommendationsSpec == ClientInit /\ [][RecommendationsNext]_vars

\* the client's catalog page and its sort selection
SortSpec == ClientInit /\ [][SortNext]_vars

\* both endpoints serving requests at once while the spreadsheet is edited
ServerInit ==
    /\ sheet \in ServerSheets
    /\ now = 0
    /\ CatalogIdle
    /\ SampleIdle
    /\ ClientMounted

ServerSpec == ServerInit /\ [][ServerNext]_vars

\* the catalog endpoint answering one request after another while time passes
\* and the spreadsheet is edited
RepeatNext ==
    \/ \E req \in ServerCatalogRequests : GETStart(req)
    \/ \E upstream \in UpstreamOutcomes : GETFetched(upstream)
    \/ GETFinish
    \/ GETReturn
    \/ AnswerKept
    \/ Tick
    \/ \E s \in ServerSheets : SheetReplaced(s)

RepeatSpec == ServerInit /\ [][RepeatNext]_vars

-----------------------------------------------------------------------------
(* Properties of the catalog endpoint *)

Min(a, b) == IF a < b THEN a ELSE b
Max(a, b) == IF a > b THEN a ELSE b

Catalog200 == catPc = "done" /\ catResp.status = 200

\* the term is a substring of the field, letters compared without case
ContainsIgnoringCase(field, term) ==
    \E k \in 0..(Len(field) - Len(term)) :
        \A i \in 1..Len(term) : LowerChar(field[k + i]) = LowerChar(term[i])

\* the search predicate of a request, on one record
SatisfiesSearch(book, req) ==
    LET term == Trim(req.search)
    IN  \/ term = <<>>
        \/ ContainsIgnoringCase(book.title, term)
        \/ ContainsIgnoringCase(book.author, term)
        \/ ContainsIgnoringCase(book.isbn, term)
        \/ ContainsIgnoringCase(book.publisher, term)

\* the stock predicate of a request, on one record
SatisfiesStock(book, req) ==
    \/ req.stockFilter \in {"", "all"}
    \/ req.stockFilter = "inStock" /\ ParsedStock(book) > 0
    \/ req.stockFilter = "outOfStock" /\ ParsedStock(book) = 0

\* the publisher predicate of a request, on one record
SatisfiesPublisher(book, req) ==
    \/ req.publisher \in {<<>>, AllStr}
    \/ book.publisher = req.publisher

\* the positions of the normalized records that satisfy all three predicates
MatchingPositions(records, req) ==
    { i \in 1..Len(NormalizeRows(records)) :
        LET book == NormalizeRows(records)[i]
        IN  SatisfiesSearch(book, req) /\ SatisfiesStock(book, req)
              /\ SatisfiesPublisher(book, req) }

\* the filtered sequence of a request, as the handler computes it
Filtered(records, req) ==
    FilterBooks(NormalizeRows(records), SearchOf(req), StockFilterOf(req), PublisherOf(req))

\* the three filters applied in the five other orders
FilterOrders(books, req) ==
    LET s(b) == SearchFilter(b, SearchOf(req))
        t(b) == StockFilter(b, StockFilterOf(req))
        p(b) == PublisherFilter(b, PublisherOf(req))
    IN  { p(s(t(books))), s(p(t(books))), t(p(s(books))), s(t(p(books))), t(s(p(books))) }

\* C2: in every 200 catalog response pagination.total is the number of
\* normalized records that satisfy the search, stock and publisher predicates
\* together, and the filtered sequence (hence the count) is the same for every
\* order in which the three filters are applied.
C2_TotalCountsConjunction ==
    Catalog200 =>
        /\ catResp.pagination.total = Cardinality(MatchingPositions(sheet, catReq))
        /\ Len(Filtered(sheet, catReq)) = catResp.pagination.total
        /\ FilterOrders(NormalizeRows(sheet), catReq) = { Filtered(sheet, catReq) }

\* C2 witness: a 200 response to a request with all three filters set, in
\* which some records are kept and some are filtered out
C2_Witness ==
    /\ Catalog200
    /\ Trim(catReq.search) # <<>>
    /\ catReq.stockFilter = "inStock"
    /\ catReq.publisher = <<"P">>
    /\ catResp.pagination.total >= 1
    /\ catResp.pagination.total < Len(NormalizeRows(sheet))

\* an integer page >= 1 and an integer limit in 1..1000
ValidPagination(page, limit) ==
    /\ ~page.nan /\ page.val >= 1
    /\ ~limit.nan /\ limit.val >= 1 /\ limit.val <= 1000

\* the items of positions first+1 .. first+n of a sequence, cut at its end
Window(seq, first, n) ==
    [i \in 1..Max(0, Min(n, Len(seq) - first)) |-> seq[first + i]]

\* C3: for every valid query the items are the slice
\* [(page-1)*limit, (page-1)*limit+limit) of the filtered sequence, clamped and
\* in row order; a valid query is never rejected, and a page beyond totalPages
\* gets a 200 with no items and the total and totalPages of page 1.
C3_ItemsAreThePageSlice ==
    LET page  == PageOf(catReq)
        limit == LimitOf(catReq)
    IN  (catPc = "done" /\ ValidPagination(page, limit)) =>
          /\ catResp.status # 400
          /\ catUpstream = "ok" =>
               /\ catResp.status = 200
               /\ catResp.books =
                    Window(Filtered(sheet, catReq), (page.val - 1) * limit.val, limit.val)
               /\ page.val > catResp.pagination.totalPages.val =>
                    LET first == QueryResponse(sheet, [catReq EXCEPT !.page = <<"1">>])
                    IN  /\ catResp.books = <<>>
                        /\ catResp.pagination.total = first.pagination.total
                        /\ catResp.pagination.totalPages = first.pagination.totalPages

\* C3 witness: a non-empty result asked for a page beyond its last page
C3_Witness ==
    /\ Catalog200
    /\ ValidPagination(PageOf(catReq), LimitOf(catReq))
    /\ catResp.pagination.total >= 2
    /\ PageOf(catReq).val > catResp.pagination.totalPages.val
    /\ catResp.books = <<>>

\* C4: in every 200 catalog response totalPages is ceil(total/limit) when
\* total > 0 and 0 when total = 0.
C4_TotalPagesIsCeiling ==
    Catalog200 =>
        LET total      == catResp.pagination.total
            limit      == catResp.pagination.limit
            totalPages == catResp.pagination.totalPages
        IN  /\ ~totalPages.nan
            /\ total = 0 => totalPages.val = 0
            /\ total > 0 =>
                 /\ ~limit.nan
                 /\ totalPages.val * limit.val >= total
                 /\ (totalPages.val - 1) * limit.val < total

\* C4 restricted to requests whose limit is an integer: the part of the claim
\* the handler keeps
C4_TotalPagesIsCeilingForIntegerLimit ==
    (Catalog200 /\ ~catResp.pagination.limit.nan) => C4_TotalPagesIsCeiling

\* C5: in every 200 catalog response hasPrev is true exactly when page > 1 and
\* hasNext exactly when page < totalPages; hasNext is false at or beyond the
\* last page and for an empty result.
C5_HasPrevHasNext ==
    Catalog200 =>
        LET pg         == catResp.pagination
            page       == pg.page
            totalPages == pg.totalPages
        IN  /\ pg.hasPrev <=> (~page.nan /\ page.val > 1)
            /\ pg.hasNext <=> (~page.nan /\ ~totalPages.nan /\ page.val < totalPages.val)
            /\ (~page.nan /\ ~totalPages.nan /\ page.val >= totalPages.val) => ~pg.hasNext
            /\ pg.total = 0 => ~pg.hasNext

\* C5 witness: the middle page of a result of three pages (hasPrev and hasNext)
C5_Witness ==
    /\ Catalog200
    /\ catResp.pagination.totalPages = Num(3)
    /\ catResp.pagination.page = Num(2)
    /\ catResp.pagination.hasPrev
    /\ catResp.pagination.hasNext

\* page < 1, limit < 1 or limit > 1000
OutOfRange(page, limit) ==
    \/ ~page.nan /\ page.val < 1
    \/ ~limit.nan /\ limit.val < 1
    \/ ~limit.nan /\ limit.val > 1000

\* C6: a request with page < 1, limit < 1 or limit > 1000 is answered 400
\* "Invalid pagination parameters" and no upstream fetch is made for it.
C6_RejectedBeforeFetch ==
    (catPc # "idle" /\ OutOfRange(PageOf(catReq), LimitOf(catReq))) =>
        /\ catPc = "done"
        /\ catResp = [status |-> 400, error |-> "Invalid pagination parameters"]
        /\ catFetches = 0
        /\ catUpstream = "none"

\* C6 witness: a rejected request with limit above 1000
C6_Witness ==
    /\ catPc = "done"
    /\ catResp.status = 400
    /\ ~LimitOf(catReq).nan
    /\ LimitOf(catReq).val > 1000

\* C7: a request whose page or limit is not an integer is answered 400, so
\* every 200 response carries an integer page >= 1 and an integer limit in
\* 1..1000.
C7_ValidationIsTotal ==
    /\ (catPc = "done" /\ (PageOf(catReq).nan \/ LimitOf(catReq).nan)) =>
          catResp.status = 400
    /\ Catalog200 => ValidPagination(catResp.pagination.page, catResp.pagination.limit)

-----------------------------------------------------------------------------
(* Properties of the client *)

\* C1: catalog queries are last-issued-wins: a response is written to the
\* visible state only if it belongs to the most recently issued request, so
\* once every request has settled (and none of them failed since the last one
\* was issued) the books and pagination shown are the answer to the last
\* issued query.
C1_LastIssuedWins ==
    (BagCardinality(inflight) = 0 /\ error = "null") =>
        /\ clientBooks = BooksAnswer(lastQuery).books
        /\ pagination = BooksAnswer(lastQuery).pagination

-----------------------------------------------------------------------------
(* Properties of the sample endpoint *)

Sample200 == smpPc = "done" /\ smpResp.status = 200

\* the eligible records of a request: all normalized records when
\* includeOutOfStock is 'true', else those with parsed stock > 0
Eligible(records, req) ==
    LET books == NormalizeRows(records)
    IN  IF req.includeOutOfStock = "true" THEN books
        ELSE SelectSeq(books, LAMBDA book : ParsedStock(book) > 0)

Occurrences(seq, x) == Cardinality({ i \in 1..Len(seq) : seq[i] = x })
Elements(seq) == { seq[i] : i \in 1..Len(seq) }
IsPermutationOf(a, b) ==
    /\ Len(a) = Len(b)
    /\ \A x \in Elements(a) \cup Elements(b) : Occurrences(a, x) = Occurrences(b, x)

\* the requested count: 5 when absent, else the number supplied
RequestedCount(req) == ParseInt(ParamOr(req.count, <<"5">>))
Clamp(x, lo, hi) == Max(lo, Min(x, hi))

\* C8: the requested count is 5 when absent and is clamped to [1,20] for every
\* supplied value; the number of recommendations is
\* min(clamp(count,1,20), eligible size) and never exceeds 20.
C8_CountClamped ==
    Sample200 =>
        LET n         == Len(Eligible(sheet, smpReq))
            requested == RequestedCount(smpReq)
            returned  == Len(smpResp.recommendations)
        IN  /\ returned <= 20
            /\ IF requested.nan
               THEN Min(1, n) <= returned
               ELSE returned = Min(Clamp(requested.val, 1, 20), n)

\* C9: when the requested count k (after the cap at 20) exceeds the eligible
\* size n >= 1, the response holds exactly n recommendations, which are all n
\* eligible records, and total = n.
C9_Saturation ==
    LET eligible == Eligible(sheet, smpReq)
        n        == Len(eligible)
        k        == CountOf(smpReq)
    IN  (Sample200 /\ n >= 1 /\ ~k.nan /\ k.val > n) =>
          /\ Len(smpResp.recommendations) = n
          /\ IsPermutationOf(smpResp.recommendations, eligible)
          /\ smpResp.total = n

\* C9 witness: a saturated request whose answer is the eligible records in
\* another order
C9_Witness ==
    /\ Sample200
    /\ Len(Eligible(sheet, smpReq)) >= 2
    /\ ~CountOf(smpReq).nan
    /\ CountOf(smpReq).val > Len(Eligible(sheet, smpReq))
    /\ smpResp.recommendations # Eligible(sheet, smpReq)
    /\ Len(smpResp.recommendations) = Len(Eligible(sheet, smpReq))

\* C10: every recommendation is an eligible record (with includeOutOfStock not
\* 'true', one with parsed stock > 0), total is the eligible size, and an
\* empty eligible set is answered 200 with no recommendations and total 0.
C10_RecommendationsAreEligible ==
    LET eligible == Eligible(sheet, smpReq)
    IN  /\ Sample200 =>
              /\ \A i \in 1..Len(smpResp.recommendations) :
                    /\ smpResp.recommendations[i] \in Elements(eligible)
                    /\ smpReq.includeOutOfStock # "true" =>
                          ParsedStock(smpResp.recommendations[i]) > 0
              /\ smpResp.total = Len(eligible)
        /\ (smpPc = "done" /\ smpUpstream = "ok" /\ eligible = <<>>) =>
              smpResp = [status |-> 200, recommendations |-> <<>>, total |-> 0]

\* C10 witness: fewer recommendations than eligible records, drawn from a
\* sheet that also holds an out-of-stock record
C10_Witness ==
    /\ Sample200
    /\ smpReq.includeOutOfStock # "true"
    /\ Len(smpResp.recommendations) >= 1
    /\ Len(smpResp.recommendations) < smpResp.total
    /\ smpResp.total < Len(NormalizeRows(sheet))

\* C10 witness for the empty case: rows upstream, none of them eligible
C10_WitnessEmpty ==
    /\ Sample200
    /\ Len(NormalizeRows(sheet)) >= 1
    /\ smpResp.recommendations = <<>>
    /\ smpResp.total = 0

-----------------------------------------------------------------------------
(* Properties of the shuffle *)

RECURSIVE Factorial(_)
Factorial(n) == IF n <= 1 THEN 1 ELSE n * Factorial(n - 1)

\* the orderings of a sequence of distinct elements
OrderingsOf(seq) ==
    { p \in [1..Len(seq) -> Elements(seq)] : IsPermutationOf(p, seq) }

\* the shuffle loop has made its last iteration
ShuffleOver == smpPc = "shuffling" /\ smpI = 0

\* C11: the Fisher-Yates loop maps the sequences of draws one-to-one onto the
\* permutations of the eligible sequence (every permutation is produced by
\* exactly one sequence of draws, and every sequence of draws produces a
\* permutation), the loop's result is the permutation of the draws it made,
\* and every k-subset of the n eligible records is the first k of the result
\* for the same number, k!(n-k)!, of draw sequences.
C11_ShuffleIsUniform ==
    ShuffleOver =>
        LET n == Len(smpBooks)
            D == DrawSequences(n)
        IN  /\ draws \in D
            /\ shuffled = FisherYates(smpBooks, draws)
            /\ \A d \in D : FisherYates(smpBooks, d) \in OrderingsOf(smpBooks)
            /\ \A p \in OrderingsOf(smpBooks) :
                  Cardinality({ d \in D : FisherYates(smpBooks, d) = p }) = 1
            /\ \A k \in 0..n : \A S \in SUBSET Elements(smpBooks) :
                  Cardinality(S) = k =>
                    Cardinality({ d \in D :
                        Elements(SubSeq(FisherYates(smpBooks, d), 1, k)) = S })
                      = Factorial(k) * Factorial(n - k)

\* C11 witness: three eligible books shuffled into another order by two draws
C11_Witness ==
    /\ ShuffleOver
    /\ Len(smpBooks) = 3
    /\ Len(draws) = 2
    /\ shuffled # smpBooks
    /\ shuffled[1] # smpBooks[1]

-----------------------------------------------------------------------------
(* Properties of normalization *)

\* the positions of the rows whose sequence number, ISBN and title are all
\* non-empty after trimming
RetainedPositions(records) ==
    { i \in 1..Len(records) :
        /\ Trim(records[i].seq) # <<>>
        /\ Trim(records[i].isbn) # <<>>
        /\ Trim(records[i].title) # <<>> }

\* the rows at those positions, trimmed, in row order
Retained(records) ==
    LET pos    == RetainedPositions(records)
        nth(k) == CHOOSE i \in pos : Cardinality({ j \in pos : j < i }) = k - 1
    IN  [k \in 1..Cardinality(pos) |->
            LET row == records[nth(k)]
            IN  [id |-> Trim(row.seq), isbn |-> Trim(row.isbn), title |-> Trim(row.title),
                 author |-> Trim(row.author), publisher |-> Trim(row.publisher),
                 price |-> Trim(row.price), stock |-> Trim(row.stock)]]

\* a is made of elements of b (all distinct), in the order they have in b
InOrderOf(a, b) ==
    /\ \A i \in 1..Len(a) : a[i] \in Elements(b)
    /\ \A i, j \in 1..Len(a) :
          i < j => (CHOOSE k \in 1..Len(b) : b[k] = a[i]) < (CHOOSE k \in 1..Len(b) : b[k] = a[j])

NoBlankKey(book) == book.id # <<>> /\ book.isbn # <<>> /\ book.title # <<>>

Unfiltered(req) ==
    Trim(req.search) = <<>> /\ req.stockFilter = "" /\ req.publisher = <<>>

\* C12: normalization keeps exactly the rows whose sequence number, ISBN and
\* title are non-empty after trimming, in row order: the records a catalog
\* response is computed from and the records a sample is drawn from are those
\* rows, so every record of a catalog or sample response has a non-empty id,
\* isbn and title and the records of a catalog response are in row order.
C12_NormalizationKeepsKeyedRows ==
    /\ NormalizeRows(sheet) = Retained(sheet)
    /\ Catalog200 =>
          /\ \A i \in 1..Len(catResp.books) : NoBlankKey(catResp.books[i])
          /\ InOrderOf(catResp.books, Retained(catText))
          /\ Unfiltered(catReq) => catResp.pagination.total = Len(Retained(catText))
          /\ (Unfiltered(catReq) /\ catReq.page = <<>> /\ catReq.limit = <<>>) =>
                catResp.books = Retained(catText)
    /\ (smpPc \in {"shuffling", "done"} /\ smpUpstream = "ok") =>
          /\ InOrderOf(smpBooks, Retained(smpText))
          /\ smpReq.includeOutOfStock = "true" => smpBooks = Retained(smpText)
    /\ Sample200 =>
          \A i \in 1..Len(smpResp.recommendations) :
              /\ NoBlankKey(smpResp.recommendations[i])
              /\ smpResp.recommendations[i] \in Elements(Retained(smpText))

\* C12 witness: an unfiltered catalog response with the two keyed rows of a
\* spreadsheet of three rows, the third having a blank title
C12_Witness ==
    /\ Catalog200
    /\ Unfiltered(catReq)
    /\ Len(catText) = 3
    /\ Len(catResp.books) = 2
    /\ \E i \in 1..Len(catText) : catText[i].title # <<>> /\ Trim(catText[i].title) = <<>>

\* C12 witness on the sample endpoint: a sample drawn from a spreadsheet with
\* a row without a sequence number
C12_WitnessSample ==
    /\ Sample200
    /\ smpReq.includeOutOfStock = "true"
    /\ Len(smpResp.recommendations) = 1
    /\ smpResp.total = 2
    /\ \E i \in 1..Len(smpText) : Trim(smpText[i].seq) = <<>>

-----------------------------------------------------------------------------
(* Properties of the stock filter *)

RECURSIVE DigitsValue(_, _)
\* the number written by the digits of str, the other characters passed
\* over, continuing from acc
DigitsValue(str, acc) ==
    IF str = <<>> THEN acc
    ELSE DigitsValue(Tail(str),
                     IF Head(str) \in Digits THEN 10 * acc + DigitVal(Head(str)) ELSE acc)

\* the stock of a record: the number its digits write, 0 when it has none
StockNumber(book) == DigitsValue(book.stock, 0)

\* the stock predicate of a request on a record, by its stock number
KeptByStock(book, req) ==
    CASE req.stockFilter = "inStock"    -> StockNumber(book) > 0
      [] req.stockFilter = "outOfStock" -> StockNumber(book) = 0
      [] OTHER                          -> TRUE

\* the normalized records that pass the search and publisher predicates of a
\* request and its stock predicate by stock number
KeptRecords(records, req) ==
    SelectSeq(NormalizeRows(records),
              LAMBDA book : /\ SatisfiesSearch(book, req)
                            /\ SatisfiesPublisher(book, req)
                            /\ KeptByStock(book, req))

\* C13: the stock of a record is the number left when every non-digit
\* character is removed, 0 when nothing parseable is left; stockFilter=inStock
\* keeps exactly the records with stock > 0, outOfStock exactly those with
\* stock = 0, and all (the default) every record: total counts exactly those
\* records and the page is cut from exactly them.
C13_StockFilter ==
    Catalog200 =>
        LET kept  == KeptRecords(catText, catReq)
            page  == PageOf(catReq)
            limit == LimitOf(catReq)
        IN  /\ catResp.pagination.total = Len(kept)
            /\ ValidPagination(page, limit) =>
                  catResp.books = Window(kept, (page.val - 1) * limit.val, limit.val)

\* C13 witness: an inStock response with a record whose stock is written with
\* a separator, from a spreadsheet that also has a record without any digit
\* in its stock
C13_Witness ==
    /\ Catalog200
    /\ catReq.stockFilter = "inStock"
    /\ \E i \in 1..Len(catResp.books) :
          /\ catResp.books[i].stock # StripNonDigits(catResp.books[i].stock)
          /\ StockNumber(catResp.books[i]) = 1
    /\ \E i \in 1..Len(catText) : catText[i].stock = <<"-">>
    /\ catResp.pagination.total < Len(NormalizeRows(catText))

\* C13 witness for outOfStock: a record without any digit in its stock is kept
C13_WitnessOutOfStock ==
    /\ Catalog200
    /\ catReq.stockFilter = "outOfStock"
    /\ \E i \in 1..Len(catResp.books) : catResp.books[i].stock = <<"-">>
    /\ catResp.pagination.total < Len(NormalizeRows(catText))

-----------------------------------------------------------------------------
(* Properties of the failure path *)

\* the upstream fetch of the request in progress failed: a transport error, a
\* response that is not ok, or a body that does not parse
UpstreamFailed == catUpstream \in {"throw", "notOk", "malformed"}

\* C20: when the upstream fetch fails (transport error or non-success status)
\* or the body does not parse, the request is answered 500 with an error
\* message (and its diagnostic detail) and nothing else: no books, no
\* pagination, nothing of an earlier snapshot; and a request makes at most one
\* upstream fetch.
C20_UpstreamFailureIs500 ==
    /\ catFetches <= 1
    /\ (catPc = "done" /\ UpstreamFailed) =>
          /\ catResp.status = 500
          /\ "error" \in DOMAIN catResp
          /\ DOMAIN catResp \subseteq {"status", "error", "details"}
          /\ catFetches = 1
    /\ (catPc = "parsing" /\ UpstreamFailed) => catResp = NoResponse

\* C20 witness: a non-success upstream status answered 500 although the
\* spreadsheet holds records the request would match
C20_Witness ==
    /\ catPc = "done"
    /\ catUpstream = "notOk"
    /\ catResp.status = 500
    /\ catFetches = 1
    /\ Len(KeptRecords(sheet, catReq)) >= 1

\* C20 witness for a body that does not parse
C20_WitnessParse ==
    /\ catPc = "done"
    /\ catUpstream = "malformed"
    /\ catResp.status = 500
    /\ Len(KeptRecords(catText, catReq)) >= 1

-----------------------------------------------------------------------------
(* Properties of the snapshot a request works on *)

\* every response is computed from one snapshot: the body its request
\* received
SnapshotConsistent ==
    /\ Catalog200 =>
          LET kept  == KeptRecords(catText, catReq)
              page  == PageOf(catReq)
              limit == LimitOf(catReq)
          IN  /\ catResp.pagination.total = Len(kept)
              /\ ValidPagination(page, limit) =>
                    /\ catResp.books = Window(kept, (page.val - 1) * limit.val, limit.val)
                    /\ catResp.pagination.totalPages =
                          Num((Len(kept) + limit.val - 1) \div limit.val)
    /\ Sample200 =>
          LET eligible == SelectSeq(Retained(smpText),
                                    LAMBDA book : \/ smpReq.includeOutOfStock = "true"
                                                  \/ StockNumber(book) > 0)
          IN  /\ smpResp.total = Len(eligible)
              /\ \A i \in 1..Len(smpResp.recommendations) :
                    /\ smpResp.recommendations[i] \in Elements(eligible)
                    /\ Occurrences(smpResp.recommendations, smpResp.recommendations[i]) = 1

\* a request takes its snapshot whole from upstream when its fetch settles and
\* keeps it to its response; no step of a request changes upstream or what the
\* other request holds, and no replacement upstream changes what a request
\* holds
SnapshotFrame ==
    /\ catText' # catText => (catText' = <<>> \/ (catPc = "fetching" /\ catText' = sheet))
    /\ smpText' # smpText => (smpText' = <<>> \/ (smpPc = "fetching" /\ smpText' = sheet))
    /\ smpBooks' # smpBooks => (smpBooks' = <<>> \/ smpPc = "fetching")
    /\ (catVars' # catVars \/ smpVars' # smpVars) => sheet' = sheet
    /\ catVars' # catVars => smpVars' = smpVars
    /\ smpVars' # smpVars => catVars' = catVars

\* C19: every response is computed from one single snapshot, the body its
\* request received: whatever replacements of the spreadsheet interleave with
\* the requests in flight, items, total and totalPages of a catalog response
\* (recommendations and total of a sample response) all agree with that one
\* snapshot, and no request changes the snapshot of another.
C19_OneSnapshotPerRequest == []SnapshotConsistent /\ [][SnapshotFrame]_vars

\* C19 witness: a catalog request and a sample request in flight that hold
\* different snapshots, neither of them what upstream holds now
C19_Witness ==
    /\ catPc = "parsing"
    /\ smpPc = "shuffling"
    /\ catText # sheet
    /\ smpText # sheet
    /\ catText # smpText
    /\ KeptRecords(catText, catReq) # KeptRecords(sheet, catReq)

\* C19 witness: a catalog response computed from a snapshot that upstream no
\* longer holds, different from the answer the new one would get
C19_WitnessResponse ==
    /\ Catalog200
    /\ catText # sheet
    /\ Len(catResp.books) >= 1
    /\ catResp.pagination.total # Len(KeptRecords(sheet, catReq))

-----------------------------------------------------------------------------
(* Properties of the debounced search *)

\* the fetchBooks calls a step sends
CallsSent ==
    { call \in DOMAIN inflight' : CopiesIn(call, inflight') > CopiesIn(call, inflight) }

\* a step that changes the debounced search value comes 300 ms or more after
\* the last change of the input and makes it the input's value
DebouncedAfterQuiescence ==
    debouncedSearchTerm' # debouncedSearchTerm =>
        /\ debounceTimer
        /\ debounceElapsed >= 300
        /\ searchTerm' = searchTerm
        /\ debouncedSearchTerm' = searchTerm

\* a step that changes the input restarts the wait, leaves the debounced
\* value alone and sends no catalog query
KeystrokeRestartsWait ==
    searchTerm' # searchTerm =>
        /\ debounceTimer'
        /\ debounceElapsed' = 0
        /\ debouncedSearchTerm' = debouncedSearchTerm
        /\ inflight' = inflight
        /\ lastQuery' = lastQuery

\* every catalog query sent carries the debounced search value
QueriesCarryDebounced ==
    \A call \in CallsSent : call.search = debouncedSearchTerm'

\* C14: the debounced search value becomes the input's value only once the
\* input has stayed unchanged for 300 ms; a change of the input followed by
\* another within 300 ms never becomes the debounced value, and no catalog
\* query is sent for it: queries carry the debounced value only.
C14_DebouncedSearch ==
    [][DebouncedAfterQuiescence /\ KeystrokeRestartsWait /\ QueriesCarryDebounced]_vars

\* C14 witness: 200 ms after a change of the input the debounced value is
\* still the old one and the queries in flight carry the old one
C14_Witness ==
    /\ searchTerm = <<"K">>
    /\ debouncedSearchTerm = <<>>
    /\ debounceTimer
    /\ debounceElapsed = 200
    /\ BagCardinality(inflight) >= 1
    /\ \A call \in DOMAIN inflight : call.search = <<>>

\* C14 witness: the input has stayed unchanged for 300 ms and its value has
\* become the debounced value and is being queried
C14_WitnessEffective ==
    /\ searchTerm = <<"K">>
    /\ debouncedSearchTerm = <<"K">>
    /\ ~debounceTimer
    /\ lastQuery.search = <<"K">>
    /\ BagIn(lastQuery, inflight)

-----------------------------------------------------------------------------
(* Properties of the filters *)

\* a step that changes the debounced search, the stock filter or the publisher
FiltersChange ==
    <<debouncedSearchTerm', clientStockFilter', selectedPublisher'>>
        # <<debouncedSearchTerm, clientStockFilter, selectedPublisher>>

\* such a step sends a query for page 1 that carries the new values, and that
\* query is the latest one
FilterChangeQueriesPageOne ==
    FiltersChange =>
        /\ lastQuery'.page = 1
        /\ lastQuery'.search = debouncedSearchTerm'
        /\ lastQuery'.stockFilter = clientStockFilter'
        /\ lastQuery'.publisher = selectedPublisher'
        /\ lastQuery' \in CallsSent
        /\ loading'

\* when the answer to a query for page 1 is taken, the page shown becomes 1
PageOneAnswerShowsPageOne ==
    \A call \in DOMAIN inflight :
        (call.page = 1 /\ FetchBooksSettle(call, TRUE)) => pagination'.page = Num(1)

\* C15: every change of the debounced search, the stock filter or the
\* publisher sends a new catalog query for page 1 with the new filter values,
\* and its answer sets the page shown to 1, whatever page was shown before.
C15_FilterChangeResetsPage ==
    [][FilterChangeQueriesPageOne /\ PageOneAnswerShowsPageOne]_vars

\* C15 witness: page 2 is shown, the stock filter has been changed and the
\* query for page 1 with the new filter is in flight
C15_Witness ==
    /\ pagination.page = Num(2)
    /\ clientStockFilter = "outOfStock"
    /\ lastQuery.page = 1
    /\ lastQuery.stockFilter = "outOfStock"
    /\ BagIn(lastQuery, inflight)

\* C15 witness: the filters are back at their defaults and the query for
\* page 1 without filters is in flight
C15_WitnessDefaults ==
    /\ debouncedSearchTerm = <<>>
    /\ clientStockFilter = "all"
    /\ selectedPublisher = AllStr
    /\ lastQuery.page = 1
    /\ lastQuery.stockFilter = "all"
    /\ BagIn(lastQuery, inflight)
    /\ clientBooks # <<>>

-----------------------------------------------------------------------------
(* Properties of the recommendations and of the sort selection *)

\* C16: catalog and sample query state are independent on the client: a step
\* in which a fetchRecommendations request completes or fails leaves loading,
\* error, books and pagination unchanged, and a step in which a fetchBooks
\* request completes or fails leaves recommendationsLoading,
\* recommendationsError and recommendations unchanged.
C16_CatalogAndSampleIndependent ==
    [][ /\ recInflight' < recInflight =>
              UNCHANGED <<loading, error, clientBooks, pagination>>
        /\ BagCardinality(inflight') < BagCardinality(inflight) =>
              UNCHANGED <<recommendationsLoading, recommendationsError, recommendations>>
      ]_vars

\* C16 witness: the recommendations failed while a catalog query is loading:
\* the catalog is still loading, without an error
C16_Witness ==
    /\ recommendationsError # "null"
    /\ ~recommendationsLoading
    /\ loading
    /\ error = "null"
    /\ BagCardinality(inflight) >= 1

\* C16 witness: the catalog query failed while the recommendations are shown
C16_WitnessCatalogFailed ==
    /\ error # "null"
    /\ ~loading
    /\ recommendations # <<>>
    /\ recommendationsError = "null"

\* C17: selecting a field other than the active sort field makes it the
\* active field with direction ascending; selecting the active field again
\* keeps the field and flips the direction; and no sort selection sends a
\* catalog query or changes the page, the books or anything else.
C17_SortSelection ==
    [][ /\ \A field \in SortFields :
              HandleSort(field) =>
                  /\ sortField' = field
                  /\ field # sortField => sortDirection' = "asc"
                  /\ field = sortField =>
                        /\ sortDirection = "asc" => sortDirection' = "desc"
                        /\ sortDirection = "desc" => sortDirection' = "asc"
        /\ <<sortField, sortDirection>>' # <<sortField, sortDirection>> =>
              /\ sortField' # sortField => sortDirection' = "asc"
              /\ sortField' = sortField => sortDirection' # sortDirection
              /\ sortDirection' \in {"asc", "desc"}
              /\ UNCHANGED <<inflight, lastQuery, pagination, clientBooks, loading, error,
                             pubInflight>>
      ]_vars

\* C17 witness: page 2 is shown sorted by price, descending, and nothing is
\* in flight
C17_Witness ==
    /\ sortField = "price"
    /\ sortDirection = "desc"
    /\ pagination.page = Num(2)
    /\ BagCardinality(inflight) = 0

-----------------------------------------------------------------------------
(* Properties of repeated catalog requests *)

\* the answer being returned is one for the snapshot and the query of a kept
\* answer
RepeatsKept(kept) ==
    /\ catPc = "done"
    /\ catResp.status = 200
    /\ kept.text = catText
    /\ kept.req = catReq

\* C21: determinism of the catalog query: two catalog requests with the same
\* query evaluated against the same snapshot return identical item sequences
\* and identical metadata: page, limit, total, totalPages, hasNext, hasPrev
\* and lastUpdated.
C21_CatalogQueryIsDeterministic ==
    \A kept \in catKept :
        RepeatsKept(kept) =>
            /\ catResp.books = kept.resp.books
            /\ catResp.pagination = kept.resp.pagination
            /\ catResp.lastUpdated = kept.resp.lastUpdated

\* C21 without lastUpdated: the item sequences and the pagination of the two
\* answers are identical.
C21_ItemsAndPaginationRepeat ==
    \A kept \in catKept :
        RepeatsKept(kept) =>
            /\ catResp.books = kept.resp.books
            /\ catResp.pagination = kept.resp.pagination

\* a later request repeats the query of a kept answer against the same
\* snapshot, with books on the page
C21_Repeated ==
    \E kept \in catKept :
        /\ RepeatsKept(kept)
        /\ catStartTime > kept.resp.lastUpdated
        /\ catResp.books # <<>>

-----------------------------------------------------------------------------
(* Properties of the catalog loading flag *)

\* C22: the client's catalog loading flag is true whenever at least one
\* fetchBooks request is in flight: with two overlapping requests, the
\* completion of the first does not set loading to false while the second is
\* still pending.
C22_LoadingWhileInFlight ==
    BagCardinality(inflight) >= 1 => loading

\* a single request in flight, and none overlapping it before: loading is true
\* from the call until the answer
C22_LoadingFalseOnlyAfterAnAnswer ==
    [][ (loading /\ ~loading') => BagCardinality(inflight') < BagCardinality(inflight) ]_vars

-----------------------------------------------------------------------------
(* Properties of the manual refresh *)

\* every request of the catalog page has settled
Settled == BagCardinality(inflight) = 0 /\ pubInflight = 0

\* C23: manual refresh re-fetches the page currently shown: after
\* handleManualRefresh on page p (called with no request pending), with the
\* filters and the page not changed since, and after all requests it triggers
\* (the publisher reload and the fetchBooks(1) of the effects) have settled,
\* the page shown is again p.
C23_RefreshKeepsPage ==
    (refreshedPage # 0 /\ Settled) => pagination.page = Num(refreshedPage)

\* a refresh on page 1 ends on page 1
C23_RefreshOfFirstPage ==
    (refreshedPage = 1 /\ Settled) => pagination.page = Num(1)

\* a refresh on page 2 has settled, without an error, and page 1 is shown
C23_RefreshedSecondPage ==
    /\ refreshedPage = 2
    /\ Settled
    /\ error = "null"
    /\ publishersLoaded
    /\ pagination.page = Num(1)

-----------------------------------------------------------------------------
(* Properties of the pages of one result *)

\* the books of page k of the query req with its page replaced, on records
PageItems(records, req, k) ==
    QueryResponse(records, [req EXCEPT !.page = DigitsOf(k)]).books

\* the item lists of pages 1..k, concatenated
RECURSIVE PagesThrough(_, _, _)
PagesThrough(records, req, k) ==
    IF k = 0 THEN <<>>
    ELSE PagesThrough(records, req, k - 1) \o PageItems(records, req, k)

\* the item counts of pages 1..k, summed
RECURSIVE ItemsThrough(_, _, _)
ItemsThrough(records, req, k) ==
    IF k = 0 THEN 0
    ELSE ItemsThrough(records, req, k - 1) + Len(PageItems(records, req, k))

\* positions <<page, index>> of the pages 1..k at which book appears
PlacesOf(book, records, req, k) ==
    { pos \in (1..k) \X (1..Len(records)) :
        /\ pos[2] <= Len(PageItems(records, req, pos[1]))
        /\ PageItems(records, req, pos[1])[pos[2]] = book }

\* C24: pages partition the filtered result: for the snapshot, the filters
\* and the (integer) limit of a 200 response, the item lists of pages
\* 1..totalPages concatenated are the filtered sequence, so every matching
\* record is on exactly one page and the item counts of the pages sum to
\* total; and the books of the response are those of its page.
C24_PagesPartitionResult ==
    (Catalog200 /\ ~catResp.pagination.limit.nan) =>
        LET filtered   == FilterBooks(NormalizeRows(catText), SearchOf(catReq),
                                      StockFilterOf(catReq), PublisherOf(catReq))
            totalPages == catResp.pagination.totalPages.val
            page       == catResp.pagination.page
        IN  /\ PagesThrough(catText, catReq, totalPages) = filtered
            /\ ItemsThrough(catText, catReq, totalPages) = catResp.pagination.total
            /\ \A n \in 1..Len(filtered) :
                  Cardinality(PlacesOf(filtered[n], catText, catReq, totalPages)) = 1
            /\ (~page.nan /\ page.val <= totalPages) =>
                  catResp.books = PageItems(catText, catReq, page.val)

\* C24 witness: the second of three pages of one book each
C24_Witness ==
    /\ Catalog200
    /\ catResp.pagination.limit = Num(1)
    /\ catResp.pagination.totalPages = Num(3)
    /\ catResp.pagination.page = Num(2)
    /\ Len(catResp.books) = 1

\* C24 witness: two pages, the last one not full
C24_WitnessShortLastPage ==
    /\ Catalog200
    /\ catResp.pagination.limit = Num(2)
    /\ catResp.pagination.total = 3
    /\ catResp.pagination.totalPages = Num(2)
    /\ catResp.pagination.page = Num(2)
    /\ Len(catResp.books) = 1

-----------------------------------------------------------------------------
(* Properties of the stock status shown *)

\* every book of the sequence is given this status by the client
AllShownAs(books, status) ==
    \A n \in 1..Len(books) : GetStockStatus(books[n].stock) = status

\* C25: client and server agree on stock status: every record the catalog
\* returns under stockFilter=inStock, and every record the sampler returns
\* with includeOutOfStock false, is classified 'in-stock' by getStockStatus,
\* and every record returned under stockFilter=outOfStock is classified
\* 'out-of-stock', whatever the stock string is.
C25_ClientAgreesOnStock ==
    /\ (Catalog200 /\ StockFilterOf(catReq) = "inStock") =>
          AllShownAs(catResp.books, "in-stock")
    /\ (Catalog200 /\ StockFilterOf(catReq) = "outOfStock") =>
          AllShownAs(catResp.books, "out-of-stock")
    /\ (Sample200 /\ ~IncludeOutOfStockOf(smpReq)) =>
          AllShownAs(smpResp.recommendations, "in-stock")

\* the part of C25 about stockFilter=outOfStock
C25_OutOfStockAgrees ==
    (Catalog200 /\ StockFilterOf(catReq) = "outOfStock") =>
        AllShownAs(catResp.books, "out-of-stock")

\* the part of C25 about stock strings that start with their digits and have
\* no other digit further on: a record returned under stockFilter=inStock
\* whose stock is such a string is classified 'in-stock'
C25_PlainStockAgrees ==
    (Catalog200 /\ StockFilterOf(catReq) = "inStock") =>
        \A n \in 1..Len(catResp.books) :
            LET stock == catResp.books[n].stock
            IN  StripNonDigits(stock) = DigitPrefix(stock) =>
                    GetStockStatus(stock) = "in-stock"

\* a book the sampler returns as in stock is shown as out of stock
C25_SampleShownOutOfStock ==
    /\ Sample200
    /\ ~IncludeOutOfStockOf(smpReq)
    /\ \E n \in 1..Len(smpResp.recommendations) :
          GetStockStatus(smpResp.recommendations[n].stock) = "out-of-stock"

\* the catalog returns a book without a digit in its stock as out of stock
C25_OutOfStockReturned ==
    /\ Catalog200
    /\ StockFilterOf(catReq) = "outOfStock"
    /\ \E n \in 1..Len(catResp.books) : StripNonDigits(catResp.books[n].stock) = <<>>

-----------------------------------------------------------------------------
(* Properties of the shuffle's working array *)

\* no two positions of the sequence hold the same record
NoneTwice(seq) == \A a, b \in 1..Len(seq) : a # b => seq[a] # seq[b]

\* C26: the sampler's shuffle only permutes: at every step of the
\* Fisher-Yates loop the working array is a permutation of the eligible
\* sequence, so the recommendations returned hold no eligible row twice, and
\* the eligible sequence itself (used for total) is not modified by the
\* shuffle.
C26_ShuffleOnlyPermutes ==
    /\ smpPc = "shuffling" =>
          /\ IsPermutationOf(shuffled, smpBooks)
          /\ smpBooks = Eligible(smpText, smpReq)
          /\ NoneTwice(shuffled)
    /\ Sample200 =>
          /\ smpBooks = Eligible(smpText, smpReq)
          /\ smpResp.total = Len(Eligible(smpText, smpReq))
          /\ NoneTwice(smpResp.recommendations)
          /\ Elements(smpResp.recommendations) \subseteq Elements(smpBooks)
          /\ smpBooks # <<>> => IsPermutationOf(shuffled, smpBooks)

\* C26 witness: in the middle of the loop over three eligible books, after a
\* swap that moved two of them
C26_Witness ==
    /\ smpPc = "shuffling"
    /\ Len(smpBooks) = 3
    /\ smpI = 1
    /\ shuffled # smpBooks

\* C26 witness: two of three eligible books returned, in another order than
\* the eligible sequence has them
C26_WitnessReturned ==
    /\ Sample200
    /\ Len(smpBooks) = 3
    /\ Len(smpResp.recommendations) = 2
    /\ smpResp.recommendations # SubSeq(smpBooks, 1, 2)

=============================================================================
